---- MODULE Spec2Model ----
(***************************************************************************)
(* StringVerse: the loop ("string") simulation and the bosonic matrix      *)
(* model of src/wasm/src/string_physics.rs and matrix_physics.rs.          *)
(*                                                                         *)
(* Conventions.  Point coordinates are f64 in the source.  In the string   *)
(* simulation they are abstracted: a loop is its point count and its       *)
(* color_id, and what the coordinates decide in one step (which index      *)
(* pairs are closer than the threshold, the total arc length) is an input  *)
(* of that step.  Distances, probabilities and random draws are counted    *)
(* in hundredths.  Indices are 0-based as in the source.                   *)
(***************************************************************************)
EXTENDS Integers, Sequences, FiniteSets, TLC

\* StringSimulation: its fields; scan, pre_count and steps record the last
\* step (the scan of each loop, the loop count it started with) and the
\* number of steps taken
VARIABLES loops, coupling, next_color_id, scan, pre_count, steps
\* MatrixSimulation: its fields; mat_last records the forces and the
\* positions of the last step
VARIABLES mat_status, mat_n, mat_x, mat_p, mat_mass, mat_coupling, mat_last,
          mat_calls
\* one call of split_loop: its arguments and its result
VARIABLES sp_in, sp_out
\* StringSimulation with the velocities of its points: its fields, and the
\* number of steps taken
VARIABLES pt_loops, pt_coupling, pt_next_color_id, pt_steps

svars == <<loops, coupling, next_color_id, scan, pre_count, steps>>
mvars == <<mat_status, mat_n, mat_x, mat_p, mat_mass, mat_coupling, mat_last,
           mat_calls>>
pvars == <<sp_in, sp_out>>
tvars == <<pt_loops, pt_coupling, pt_next_color_id, pt_steps>>
vars == <<svars, mvars, pvars, tvars>>

(* ---------------- program constants ---------------- *)
MIN_LOOP_POINTS == 20
INTERSECTION_THRESHOLD == 80
MAX_LOOPS == 8
MAX_POINTS == 256
SEED_LEN_0 == 64
SEED_LEN_1 == 48

(* ---------------- bounds of the model ---------------- *)
MaxSteps == 4

Couplings == {1, 3}

NoPair == <<-1, -1>>

Min(a, b) == IF a < b THEN a ELSE b
Max(a, b) == IF a > b THEN a ELSE b
Abs(a) == IF a < 0 THEN -a ELSE a

(* ---------------- StringLoop ---------------- *)
\* StringLoop::new(n, color_id): n points, the given id
NewLoop(n, c) == [len |-> n, color_id |-> c]

\* split_loop(lp, i, j, c1, c2) on the point and velocity sequences
MutSplitLoop(pos, vel, i, j, c1, c2) ==
  LET n == Len(pos)
      pos_a == [k \in 1..(j - i + 1) |-> pos[((i + k - 1) % n) + 1]]
      vel_a == [k \in 1..(j - i + 1) |-> vel[((i + k - 1) % n) + 1]]
      pos_b == [k \in 1..(n - j - 1) |-> pos[j + k + 1]] \o [k \in 1..(i + 1) |-> pos[k]]
      vel_b == [k \in 1..(n - j - 1) |-> vel[j + k + 1]] \o [k \in 1..(i + 1) |-> vel[k]]
  IN <<[positions |-> pos_a, velocities |-> vel_a, color_id |-> c1],
       [positions |-> pos_b, velocities |-> vel_b, color_id |-> c2]>>
split_loop(pos, vel, i, j, c1, c2) ==
  LET n == Len(pos)
      pos_a == [k \in 1..(j - i + 1) |-> pos[((i + k - 1) % n) + 1]]
      vel_a == [k \in 1..(j - i + 1) |-> vel[((i + k - 1) % n) + 1]]
      pos_b == [k \in 1..(n - j) |-> pos[j + k]] \o [k \in 1..(i + 1) |-> pos[k]]
      vel_b == [k \in 1..(n - j) |-> vel[j + k]] \o [k \in 1..(i + 1) |-> vel[k]]
  IN <<[positions |-> pos_a, velocities |-> vel_a, color_id |-> c1],
       [positions |-> pos_b, velocities |-> vel_b, color_id |-> c2]>>

\* split_loop on a loop of n points, by point counts: a.len() and b.len()
\* are the sizes of the ranges i..=j and j..n followed by 0..=i
SplitChildren(n, i, j, c1, c2) ==
  <<[len |-> (j - i) + 1, color_id |-> c1],
    [len |-> (n - j) + (i + 1), color_id |-> c2]>>

(* ---------------- geometry and random draws of one step ---------------- *)
\* What the coordinates of a loop of n points decide in the scan: the
\* distances of its index pairs that are not far apart (every other pair
\* is farther apart than the threshold).  The loops of S have such pairs.
NearPairs(n) == {[i |-> 0, j |-> 4, d |-> 10],
                 [i |-> 0, j |-> n - 1, d |-> 0],
                 [i |-> 1, j |-> 20, d |-> 50],
                 [i |-> 2, j |-> n - 19, d |-> 0],
                 [i |-> 3, j |-> 30, d |-> 80]}

\* the loops that have such pairs in one step: none, all, or every other one
CrossProfiles == {"none", "all", "odd", "even"}
Crossing(profile, k) ==
  CASE profile = "none" -> {}
    [] profile = "all" -> 1..k
    [] profile = "odd" -> {idx \in 1..k : idx % 2 = 1}
    [] OTHER -> {idx \in 1..k : idx % 2 = 0}

\* js_random(): the k-th value the uniform source returns in one step
DrawStreams == {"low", "high-mid"}
js_random(stream, k) ==
  CASE stream = "low" -> 20
    [] OTHER -> IF k % 2 = 1 THEN 85 ELSE 50

\* total_len / TARGET_POINT_DENSITY as usize of a loop of n points: the arc
\* length of every loop matches its point count ("own"), or every loop
\* has shrunk to a point ("zero") or stretched far ("long")
ArcProfiles == {"own", "zero", "long"}
RawTarget(profile, n) ==
  CASE profile = "own" -> n
    [] profile = "zero" -> 0
    [] OTHER -> 1000

\* the pairs (i, j) the scan visits, does not skip, and finds with
\* dist3d(lp.positions[i], lp.positions[j]) < INTERSECTION_THRESHOLD
Qualifying(n, near) ==
  {<<e.i, e.j>> : e \in {e \in near :
       /\ e.i >= 0 /\ e.i < n /\ e.j >= e.i + 4 /\ e.j < n
       /\ ~(e.j = n - 1 /\ e.i = 0)
       /\ ~((e.j - e.i + 1) < MIN_LOOP_POINTS
             \/ ((n - e.j) + (e.i + 1)) < MIN_LOOP_POINTS)
       /\ e.d < INTERSECTION_THRESHOLD}}

PairBefore(p, q) == p[1] < q[1] \/ (p[1] = q[1] /\ p[2] <= q[2])

\* the pairs of S in scan order: ascending i, then ascending j
RECURSIVE ScanOrder(_)
ScanOrder(S) ==
  IF S = {} THEN <<>>
  ELSE LET p == CHOOSE p \in S : \A q \in S : PairBefore(p, q)
       IN <<p>> \o ScanOrder(S \ {p})

\* let prob = (self.coupling * 0.3).min(0.8)
SplitProb(c) == Min(c * 30, 80)

\* the 'outer scan of one loop over its qualifying pairs in scan order: a
\* draw at each, until one fires.  drawn counts the draws of the step so
\* far, rolls collects the draws of this loop.
RECURSIVE MutScanPairs(_, _, _, _, _)
MutScanPairs(pairs, prob, stream, drawn, rolls) ==
  IF pairs = <<>> THEN [split |-> NoPair, rolls |-> rolls]
  ELSE LET r == js_random(stream, drawn + 1)
       IN IF r < prob
          THEN [split |-> Head(pairs), rolls |-> Append(rolls, r)]
          ELSE [split |-> NoPair, rolls |-> Append(rolls, r)]
RECURSIVE ScanPairs(_, _, _, _, _)
ScanPairs(pairs, prob, stream, drawn, rolls) ==
  IF pairs = <<>> THEN [split |-> NoPair, rolls |-> rolls]
  ELSE LET r == js_random(stream, drawn + 1)
       IN IF r < prob
          THEN [split |-> Head(pairs), rolls |-> Append(rolls, r)]
          ELSE ScanPairs(Tail(pairs), prob, stream, drawn + 1, Append(rolls, r))

\* the body of the loop over loop_idx in check_intersections
ScanLoop(lp, near, c, stream, drawn) ==
  LET qual == ScanOrder(Qualifying(lp.len, near))
      r == ScanPairs(qual, SplitProb(c), stream, drawn, <<>>)
  IN [len |-> lp.len, qual |-> qual, rolls |-> r.rolls, split |-> r.split,
      prob |-> SplitProb(c)]

\* split_loop(lp, i, j, self.next_color_id, self.next_color_id + 1);
\* self.next_color_id += 2
MutFreshIds(next) == [c1 |-> next, c2 |-> next + 1, next |-> next + 1]
FreshIds(next) == [c1 |-> next, c2 |-> next + 1, next |-> next + 2]

RECURSIVE CheckFrom(_, _, _, _, _, _)
CheckFrom(ls, idx, S, c, stream, acc) ==
  IF idx > Len(ls) THEN acc
  ELSE
    LET lp == ls[idx]
        rec == ScanLoop(lp, IF idx \in S THEN NearPairs(lp.len) ELSE {},
                        c, stream, acc.drawn)
        drawn == acc.drawn + Len(rec.rolls)
    IN IF rec.split = NoPair
       THEN CheckFrom(ls, idx + 1, S, c, stream,
                      [acc EXCEPT !.scan = Append(@, rec), !.drawn = drawn])
       ELSE
         LET ids == FreshIds(acc.next_color_id)
             ch == SplitChildren(lp.len, rec.split[1], rec.split[2], ids.c1, ids.c2)
             na == IF ch[1].len >= MIN_LOOP_POINTS THEN <<ch[1]>> ELSE <<>>
             nb == IF ch[2].len >= MIN_LOOP_POINTS THEN <<ch[2]>> ELSE <<>>
         IN CheckFrom(ls, idx + 1, S, c, stream,
                      [scan |-> Append(acc.scan, rec),
                       drawn |-> drawn,
                       to_remove |-> Append(acc.to_remove, idx),
                       new_loops |-> acc.new_loops \o na \o nb,
                       next_color_id |-> ids.next])

\* self.loops.remove(idx) for the indices of to_remove, last first
RECURSIVE MutRemoveAll(_, _)
MutRemoveAll(ls, to_remove) ==
  IF to_remove = <<>> THEN ls
  ELSE LET idx == to_remove[1]
       IN MutRemoveAll(SubSeq(ls, 1, idx - 1) \o SubSeq(ls, idx + 1, Len(ls)),
                       Tail(to_remove))
RECURSIVE RemoveAll(_, _)
RemoveAll(ls, to_remove) ==
  IF to_remove = <<>> THEN ls
  ELSE LET idx == to_remove[Len(to_remove)]
       IN RemoveAll(SubSeq(ls, 1, idx - 1) \o SubSeq(ls, idx + 1, Len(ls)),
                    SubSeq(to_remove, 1, Len(to_remove) - 1))

\* check_intersections
check_intersections(ls, S, c, stream, next) ==
  LET r == CheckFrom(ls, 1, S, c, stream,
                     [scan |-> <<>>, drawn |-> 0, to_remove |-> <<>>,
                      new_loops |-> <<>>, next_color_id |-> next])
  IN [loops |-> RemoveAll(ls, r.to_remove) \o r.new_loops,
      next_color_id |-> r.next_color_id,
      scan |-> r.scan]

\* ((total_len / TARGET_POINT_DENSITY) as usize).max(MIN_LOOP_POINTS).min(256)
MutResampleTarget(raw) == Max(raw, MIN_LOOP_POINTS)
ResampleTarget(raw) == Min(Max(raw, MIN_LOOP_POINTS), MAX_POINTS)

\* StringLoop::resample(target_n): target_n points, the same color_id
resample(lp, target_n) ==
  IF lp.len = target_n THEN lp
  ELSE [len |-> target_n, color_id |-> lp.color_id]

\* resample_loops
resample_loops(ls, profile) ==
  [idx \in 1..Len(ls) |->
     LET lp == ls[idx]
         target == ResampleTarget(RawTarget(profile, lp.len))
     IN IF Abs(target - lp.len) > 10 THEN resample(lp, target) ELSE lp]

\* if self.loops.len() < MAX_LOOPS { self.check_intersections(); }
MutMaybeCheck(ls, S, c, stream, next) ==
  IF Len(ls) <= MAX_LOOPS
  THEN check_intersections(ls, S, c, stream, next)
  ELSE [loops |-> ls, next_color_id |-> next, scan |-> <<>>]
MaybeCheck(ls, S, c, stream, next) ==
  IF Len(ls) < MAX_LOOPS
  THEN check_intersections(ls, S, c, stream, next)
  ELSE [loops |-> ls, next_color_id |-> next, scan |-> <<>>]

(* ---------------- StringSimulation ---------------- *)
StringIdle ==
  /\ loops = <<>> /\ coupling = 0 /\ next_color_id = 0 /\ scan = <<>>
  /\ pre_count = 0 /\ steps = 0
MatrixIdle ==
  /\ mat_status = "none" /\ mat_n = 0 /\ mat_x = <<>> /\ mat_p = <<>>
  /\ mat_mass = 0 /\ mat_coupling = 0 /\ mat_last = <<>> /\ mat_calls = 0
SplitIdle == sp_in = <<>> /\ sp_out = <<>>
PointsIdle ==
  /\ pt_loops = <<>> /\ pt_coupling = 0 /\ pt_next_color_id = 0
  /\ pt_steps = 0

\* StringSimulation::new(coupling)
Init ==
  /\ MatrixIdle /\ SplitIdle /\ PointsIdle
  /\ coupling \in Couplings
  /\ loops = <<NewLoop(SEED_LEN_0, 0), NewLoop(SEED_LEN_1, 1)>>
  /\ next_color_id = 2
  /\ scan = <<>>
  /\ pre_count = 0
  /\ steps = 0

\* StringSimulation::step(dt)
step ==
  /\ steps < MaxSteps
  /\ \E cross \in CrossProfiles, stream \in DrawStreams, arc \in ArcProfiles :
       LET chk == MaybeCheck(loops, Crossing(cross, Len(loops)), coupling,
                             stream, next_color_id)
       IN /\ loops' = resample_loops(chk.loops, arc)
          /\ next_color_id' = chk.next_color_id
          /\ scan' = chk.scan
  /\ pre_count' = Len(loops)
  /\ steps' = steps + 1
  /\ UNCHANGED <<coupling, mvars, pvars, tvars>>

\* StringSimulation::set_coupling(coupling)
set_coupling ==
  /\ \E c \in Couplings : coupling' = c
  /\ UNCHANGED <<loops, next_color_id, scan, pre_count, steps, mvars, pvars, tvars>>

Next == step \/ set_coupling

Spec == Init /\ [][Next]_vars

(* ---------------- split_loop as a function ---------------- *)
MaxSplitLen == 41

\* a loop of n points: point k has position k and velocity -(k + 1), so
\* every point and every velocity of the loop is told apart
TaggedLoop(n) ==
  [positions |-> [k \in 1..n |-> k - 1],
   velocities |-> [k \in 1..n |-> 0 - k],
   color_id |-> 0]

\* the arguments split_loop is called with: a loop of n points and indices
\* i < j that leave both children MIN_LOOP_POINTS points or more
SplitArgs ==
  {[n |-> n, i |-> i, j |-> j, c1 |-> 2, c2 |-> 3] :
     n \in (2 * MIN_LOOP_POINTS - 2)..MaxSplitLen,
     i \in 0..(MaxSplitLen - 1), j \in 0..(MaxSplitLen - 1)} 

ValidSplitArgs ==
  {a \in SplitArgs :
     /\ a.i < a.j /\ a.j < a.n
     /\ a.j - a.i + 1 >= MIN_LOOP_POINTS
     /\ (a.n - a.j) + (a.i + 1) >= MIN_LOOP_POINTS}

InitSplit ==
  /\ StringIdle /\ MatrixIdle /\ PointsIdle
  /\ sp_in \in ValidSplitArgs
  /\ sp_out = <<>>

CallSplit ==
  /\ sp_out = <<>>
  /\ sp_out' = split_loop(TaggedLoop(sp_in.n).positions,
                          TaggedLoop(sp_in.n).velocities,
                          sp_in.i, sp_in.j, sp_in.c1, sp_in.c2)
  /\ UNCHANGED <<sp_in, svars, mvars, tvars>>

NextSplit == CallSplit

SpecSplit == InitSplit /\ [][NextSplit]_vars

(* ---------------- MatrixSimulation ---------------- *)
\* Matrix entries, momenta and forces are counted in units of 0.05, dt in
\* hundredths; coupling and mass are whole numbers.
FORCE_CLAMP == 40
MOM_CLAMP == 60
POS_STEP_CLAMP == 3
DAMPING == 8

MaxN == 2
MaxCalls == 3

MatCouplings == {0, 2}
MatMasses == {0, 3}
Dts == {10, 1000}
Strengths == {40, 400}

Clamp(v, lo, hi) == IF v < lo THEN lo ELSE IF v > hi THEN hi ELSE v

\* a / b rounded to the nearest whole number, b > 0
Round(a, b) ==
  IF a >= 0 THEN (2 * a + b) \div (2 * b) ELSE 0 - ((2 * (0 - a) + b) \div (2 * b))

RECURSIVE SumTo(_, _)
SumTo(f, k) == IF k = 0 THEN 0 ELSE f[k] + SumTo(f, k - 1)
\* the sum of the entries of a sequence
Sum(f) == SumTo(f, Len(f))

\* the largest r with r * r <= v
Isqrt(v) == CHOOSE r \in 0..v : r * r <= v /\ (r + 1) * (r + 1) > v

\* the sequence f[1], ..., f[k], entry by entry
RECURSIVE Vec(_, _)
Vec(f, k) == IF k = 0 THEN <<>> ELSE Append(Vec(f, k - 1), f[k])

\* js_random(): the k-th value the uniform source returns in one call
MatStreams == {"low", "ramp"}
mat_js_random(stream, k) ==
  CASE stream = "low" -> 0
    [] OTHER -> (k * 37) % 100

\* the number of draws before the draw for entry (a, b), b >= a, of matrix i
\* in the loops "for i in 0..3 { for a in 0..n { for b in a..n"
DrawIndex(n, i, a, b) ==
  i * ((n * (n + 1)) \div 2) + (a * n - ((a * (a - 1)) \div 2)) + (b - a) + 1

\* let val = (js_random() - 0.5) * scale, scale = 0.1 / sqrt(n), in
\* units of 0.05
InitVal(n, r) == Round((r - 50) * 2000, 100 * Isqrt(n * 1000000))

\* the entries MatrixSimulation::new writes: x[i][a*n+b] and x[i][b*n+a]
\* both get the value drawn for (min, max)
MutNewX(n, stream) ==
  Vec([i \in 1..3 |-> Vec([idx \in 1..(n * n) |->
     LET a == (idx - 1) \div n
         b == (idx - 1) % n
     IN IF a <= b THEN InitVal(n, mat_js_random(stream, DrawIndex(n, i - 1, a, b)))
        ELSE 0], n * n)], 3)
NewX(n, stream) ==
  Vec([i \in 1..3 |-> Vec([idx \in 1..(n * n) |->
     LET a == (idx - 1) \div n
         b == (idx - 1) % n
         lo == Min(a, b)
         hi == Max(a, b)
     IN InitVal(n, mat_js_random(stream, DrawIndex(n, i - 1, lo, hi)))], n * n)], 3)

\* vec![vec![0.0f64; n * n]; 3]
Zeros(n) == Vec([i \in 1..3 |-> Vec([idx \in 1..(n * n) |-> 0], n * n)], 3)

\* commutator(a, b, n): [A, B] = AB - BA, flat row-major
commutator(a, b, n) ==
  Vec([idx \in 1..(n * n) |->
     LET i == (idx - 1) \div n
         j == (idx - 1) % n
         ab == Sum([k \in 1..n |-> a[i * n + k] * b[(k - 1) * n + j + 1]])
         ba == Sum([k \in 1..n |-> b[i * n + k] * a[(k - 1) * n + j + 1]])
     IN ab - ba], n * n)

\* forces[i][idx].clamp(-FORCE_CLAMP, FORCE_CLAMP)
ClampForce(v) == Clamp(v, 0 - FORCE_CLAMP, FORCE_CLAMP)

\* compute_forces: f_i = coupling^2 * sum over j != i of [X_j, [X_j, X_i]]
\* - mass^2 * X_i, clamped
ForceOf(xi, dc1, dc2, n, c, m) ==
  Vec([idx \in 1..(n * n) |->
         ClampForce(Round(c * c * dc1[idx] + c * c * dc2[idx]
                          - m * m * xi[idx] * 400, 400))], n * n)
compute_forces(x, n, c, m) ==
  Vec([i \in 1..3 |->
         LET j1 == IF i = 1 THEN 2 ELSE 1
             j2 == IF i = 3 THEN 2 ELSE 3
         IN ForceOf(x[i],
                    commutator(x[j1], commutator(x[j1], x[i], n), n),
                    commutator(x[j2], commutator(x[j2], x[i], n), n),
                    n, c, m)], 3)

\* let dx = p * dt + 0.5 * forces * dt2; dx.clamp(-POS_STEP_CLAMP, POS_STEP_CLAMP)
MutStepDx(pv, f, dt) == Round(200 * pv * dt + f * dt * dt, 20000)
StepDx(pv, f, dt) ==
  Clamp(Round(200 * pv * dt + f * dt * dt, 20000), 0 - POS_STEP_CLAMP, POS_STEP_CLAMP)

\* (damp * (p + dp)).clamp(-MOM_CLAMP, MOM_CLAMP), damp = 1 - damping * dt,
\* dp = 0.5 * (forces + forces_new) * dt
StepP(pv, f, fnew, dt) ==
  Clamp(Round((10000 - DAMPING * dt) * (pv + Round((f + fnew) * dt, 200)), 10000),
        0 - MOM_CLAMP, MOM_CLAMP)

\* self.x[i][idx] += dx.clamp(..) for every entry
UpdateX(x, pm, forces, n, dt) ==
  Vec([i \in 1..3 |-> Vec([idx \in 1..(n * n) |->
         x[i][idx] + StepDx(pm[i][idx], forces[i][idx], dt)], n * n)], 3)

\* self.p[i][idx] = (damp * (self.p[i][idx] + dp)).clamp(..) for every entry
UpdateP(pm, forces, forces_new, n, dt) ==
  Vec([i \in 1..3 |-> Vec([idx \in 1..(n * n) |->
         StepP(pm[i][idx], forces[i][idx], forces_new[i][idx], dt)], n * n)], 3)

\* the re-symmetrization of one matrix: both (a, b) and (b, a) get
\* 0.5 * (x[a*n+b] + x[b*n+a])
Resymmetrize(xi, n) ==
  Vec([idx \in 1..(n * n) |->
     LET a == (idx - 1) \div n
         b == (idx - 1) % n
     IN IF a = b THEN xi[idx]
        ELSE Round(xi[a * n + b + 1] + xi[b * n + a + 1], 2)], n * n)

\* (p + kick).clamp(-MOM_CLAMP, MOM_CLAMP), kick = (js_random() - 0.5) * strength
PokeP(pv, r, strength) ==
  Clamp(pv + Round((r - 50) * strength, 100), 0 - MOM_CLAMP, MOM_CLAMP)

\* get_energy, times 640000
get_energy(x, pm, n, c, m) ==
  LET ke == Sum([i \in 1..3 |-> Sum([idx \in 1..(n * n) |-> pm[i][idx] * pm[i][idx]])])
      po == Sum([i \in 1..3 |-> Sum([idx \in 1..(n * n) |-> x[i][idx] * x[i][idx]])])
      sq(comm) == Sum([idx \in 1..(n * n) |-> comm[idx] * comm[idx]])
      cm(i, j) == sq(commutator(x[i], x[j], n))
  IN 800 * ke + 800 * m * m * po - c * c * (cm(1, 2) + cm(1, 3) + cm(2, 3))

\* MatrixSimulation::new(n, coupling, mass)
InitMatrix ==
  /\ StringIdle /\ SplitIdle /\ PointsIdle
  /\ mat_n \in 0..MaxN
  /\ mat_coupling \in MatCouplings
  /\ mat_mass \in MatMasses
  /\ \E stream \in MatStreams : mat_x = NewX(mat_n, stream)
  /\ mat_p = Zeros(mat_n)
  /\ mat_status = "constructed"
  /\ mat_last = <<>>
  /\ mat_calls = 0

\* MatrixSimulation::step(dt)
MatrixStep ==
  /\ mat_calls < MaxCalls
  /\ \E dt \in Dts :
     \E forces \in {compute_forces(mat_x, mat_n, mat_coupling, mat_mass)} :
     \E x1 \in {UpdateX(mat_x, mat_p, forces, mat_n, dt)} :
     \E forces_new \in {compute_forces(x1, mat_n, mat_coupling, mat_mass)} :
       /\ mat_p' = UpdateP(mat_p, forces, forces_new, mat_n, dt)
       /\ mat_x' = Vec([i \in 1..3 |-> Resymmetrize(x1[i], mat_n)], 3)
       /\ mat_last' = <<forces, forces_new, mat_x>>
  /\ mat_calls' = mat_calls + 1
  /\ UNCHANGED <<mat_status, mat_n, mat_mass, mat_coupling, svars, pvars, tvars>>

\* MatrixSimulation::poke(strength)
poke ==
  /\ mat_calls < MaxCalls
  /\ \E strength \in Strengths, stream \in MatStreams :
       mat_p' = Vec([i \in 1..3 |-> Vec([idx \in 1..(mat_n * mat_n) |->
                   LET a == (idx - 1) \div mat_n
                       b == (idx - 1) % mat_n
                       lo == Min(a, b)
                       hi == Max(a, b)
                   IN PokeP(mat_p[i][lo * mat_n + hi + 1],
                            mat_js_random(stream, DrawIndex(mat_n, i - 1, lo, hi)),
                            strength)], mat_n * mat_n)], 3)
  /\ mat_calls' = mat_calls + 1
  /\ UNCHANGED <<mat_status, mat_n, mat_x, mat_mass, mat_coupling, mat_last,
                 svars, pvars, tvars>>

\* MatrixSimulation::set_coupling(coupling)
mat_set_coupling ==
  /\ \E c \in MatCouplings : mat_coupling' = c
  /\ UNCHANGED <<mat_status, mat_n, mat_x, mat_p, mat_mass, mat_last, mat_calls,
                 svars, pvars, tvars>>

\* MatrixSimulation::set_mass(mass)
set_mass ==
  /\ \E m \in MatMasses : mat_mass' = m
  /\ UNCHANGED <<mat_status, mat_n, mat_x, mat_p, mat_coupling, mat_last,
                 mat_calls, svars, pvars, tvars>>

NextMatrix == MatrixStep \/ poke \/ mat_set_coupling \/ set_mass

SpecMatrix == InitMatrix /\ [][NextMatrix]_vars

(* ---------------- StringSimulation, point by point ---------------- *)
\* The same simulation with the velocities of its points.  A velocity is a
\* triple of components in hundredths; a position is kept as a point
\* without its coordinates.  What the coordinates decide in a step (the
\* forces, the close pairs, the arc length) is an input of the step.
VEL_CLAMP == 500

MaxPointSteps == 2

\* StringLoop::new(64, 0) and StringLoop::new(48, 1): the velocities
\* [-sin(t + phase) * 0.3, cos(t + phase) * 0.3, cos(t * 0.5) * 0.1] with
\* t = 2 * PI * i / n and phase = color_id * 0.7, in hundredths
SeedVelocities0 ==
  <<
    <<0, 30, 10>>, <<-3, 30, 10>>, <<-6, 29, 10>>, <<-9, 29, 10>>,
    <<-11, 28, 10>>, <<-14, 26, 10>>, <<-17, 25, 10>>, <<-19, 23, 9>>,
    <<-21, 21, 9>>, <<-23, 19, 9>>, <<-25, 17, 9>>, <<-26, 14, 9>>,
    <<-28, 11, 8>>, <<-29, 9, 8>>, <<-29, 6, 8>>, <<-30, 3, 7>>,
    <<-30, 0, 7>>, <<-30, -3, 7>>, <<-29, -6, 6>>, <<-29, -9, 6>>,
    <<-28, -11, 6>>, <<-26, -14, 5>>, <<-25, -17, 5>>, <<-23, -19, 4>>,
    <<-21, -21, 4>>, <<-19, -23, 3>>, <<-17, -25, 3>>, <<-14, -26, 2>>,
    <<-11, -28, 2>>, <<-9, -29, 1>>, <<-6, -29, 1>>, <<-3, -30, 0>>,
    <<0, -30, 0>>, <<3, -30, 0>>, <<6, -29, -1>>, <<9, -29, -1>>,
    <<11, -28, -2>>, <<14, -26, -2>>, <<17, -25, -3>>, <<19, -23, -3>>,
    <<21, -21, -4>>, <<23, -19, -4>>, <<25, -17, -5>>, <<26, -14, -5>>,
    <<28, -11, -6>>, <<29, -9, -6>>, <<29, -6, -6>>, <<30, -3, -7>>,
    <<30, 0, -7>>, <<30, 3, -7>>, <<29, 6, -8>>, <<29, 9, -8>>,
    <<28, 11, -8>>, <<26, 14, -9>>, <<25, 17, -9>>, <<23, 19, -9>>,
    <<21, 21, -9>>, <<19, 23, -9>>, <<17, 25, -10>>, <<14, 26, -10>>,
    <<11, 28, -10>>, <<9, 29, -10>>, <<6, 29, -10>>, <<3, 30, -10>>>>

SeedVelocities1 ==
  <<
    <<-19, 23, 10>>, <<-22, 20, 10>>, <<-25, 17, 10>>, <<-27, 14, 10>>,
    <<-28, 10, 10>>, <<-29, 6, 9>>, <<-30, 3, 9>>, <<-30, -1, 9>>,
    <<-30, -5, 9>>, <<-29, -9, 8>>, <<-27, -13, 8>>, <<-25, -16, 8>>,
    <<-23, -19, 7>>, <<-20, -22, 7>>, <<-17, -25, 6>>, <<-14, -27, 6>>,
    <<-10, -28, 5>>, <<-6, -29, 4>>, <<-3, -30, 4>>, <<1, -30, 3>>,
    <<5, -30, 3>>, <<9, -29, 2>>, <<13, -27, 1>>, <<16, -25, 1>>,
    <<19, -23, 0>>, <<22, -20, -1>>, <<25, -17, -1>>, <<27, -14, -2>>,
    <<28, -10, -3>>, <<29, -6, -3>>, <<30, -3, -4>>, <<30, 1, -4>>,
    <<30, 5, -5>>, <<29, 9, -6>>, <<27, 13, -6>>, <<25, 16, -7>>,
    <<23, 19, -7>>, <<20, 22, -8>>, <<17, 25, -8>>, <<14, 27, -8>>,
    <<10, 28, -9>>, <<6, 29, -9>>, <<3, 30, -9>>, <<-1, 30, -9>>,
    <<-5, 30, -10>>, <<-9, 29, -10>>, <<-13, 27, -10>>, <<-16, 25, -10>>>>

\* the sequence f[lo], ..., f[hi], built by halves
RECURSIVE Pack(_, _, _)
Pack(f, lo, hi) ==
  IF lo > hi THEN <<>>
  ELSE IF lo = hi THEN <<f[lo]>>
  ELSE LET mid == (lo + hi) \div 2
       IN Pack(f, lo, mid) \o Pack(f, mid + 1, hi)

Points(n) == Pack([k \in 1..n |-> "pt"], 1, n)

\* StringLoop::new(n, color_id) for the two seed loops
NewPointLoop(n, c) ==
  [positions |-> Points(n),
   velocities |-> IF c = 0 THEN SeedVelocities0 ELSE SeedVelocities1,
   color_id |-> c]

\* 0.5 * (forces[i][d] + forces_new[i][d]) * dt of point i, component d:
\* the same push on every component, or a strong pull whose sign changes
\* from one component to the next
Kicks == {"push", "shear"}
Kick(profile, i, d) ==
  CASE profile = "push" -> 470
    [] OTHER -> IF (i + d) % 2 = 0 THEN 0 - 1200 ELSE 260

\* the loops that have close pairs in a step of this specification: every
\* loop; whether one splits, and at which pair, is left to the draws and
\* the coupling
PointCrossProfiles == {"all"}

\* lp.velocities[i][d].clamp(-5.0, 5.0)
MutClampVel(v) == v
ClampVel(v) == Clamp(v, 0 - VEL_CLAMP, VEL_CLAMP)

\* the velocity update of one loop in step
Integrate(lp, kick) ==
  LET n == Len(lp.positions)
  IN [lp EXCEPT !.velocities =
        Pack([k \in 1..n |->
               <<ClampVel(lp.velocities[k][1] + Kick(kick, k - 1, 0)),
                 ClampVel(lp.velocities[k][2] + Kick(kick, k - 1, 1)),
                 ClampVel(lp.velocities[k][3] + Kick(kick, k - 1, 2))>>], 1, n)]

\* lerp(a, b) = a + frac * (b - a) with frac = m / target_n
Lerp(a, b, m, target_n) == Round(a * target_n + m * (b - a), target_n)

\* StringLoop::resample(target_n) on the points: t = i / target_n * n,
\* idx = t as usize % n, frac = t - t.floor(), next = (idx + 1) % n
resample_points(lp, target_n) ==
  LET n == Len(lp.positions)
      v == lp.velocities
  IN IF n = target_n THEN lp
     ELSE [positions |-> Points(target_n),
           velocities |->
             Pack([i \in 1..target_n |->
                    LET q == (i - 1) * n
                        idx == (q \div target_n) % n
                        m == q % target_n
                        next == (idx + 1) % n
                    IN <<Lerp(v[idx + 1][1], v[next + 1][1], m, target_n),
                         Lerp(v[idx + 1][2], v[next + 1][2], m, target_n),
                         Lerp(v[idx + 1][3], v[next + 1][3], m, target_n)>>], 1,
                 target_n),
           color_id |-> lp.color_id]

\* resample_loops on the points
resample_point_loops(ls, profile) ==
  Pack([idx \in 1..Len(ls) |->
         LET lp == ls[idx]
             n == Len(lp.positions)
             target == ResampleTarget(RawTarget(profile, n))
         IN IF Abs(target - n) > 10 THEN resample_points(lp, target) ELSE lp], 1,
      Len(ls))

\* the point counts and ids of the loops
Sizes(ls) ==
  Pack([idx \in 1..Len(ls) |->
         [len |-> Len(ls[idx].positions), color_id |-> ls[idx].color_id]], 1,
      Len(ls))

\* the if let Some((i, j)) = split_point branch of check_intersections for
\* the loops from idx on, given the scan of every loop
RECURSIVE SplitFrom(_, _, _, _)
SplitFrom(ls, idx, sc, acc) ==
  IF idx > Len(sc) THEN acc
  ELSE IF sc[idx].split = NoPair THEN SplitFrom(ls, idx + 1, sc, acc)
  ELSE
    LET ids == FreshIds(acc.next_color_id)
        ch == split_loop(ls[idx].positions, ls[idx].velocities,
                         sc[idx].split[1], sc[idx].split[2], ids.c1, ids.c2)
        a == [positions |-> Pack(ch[1].positions, 1, Len(ch[1].positions)),
              velocities |-> Pack(ch[1].velocities, 1, Len(ch[1].velocities)),
              color_id |-> ch[1].color_id]
        b == [positions |-> Pack(ch[2].positions, 1, Len(ch[2].positions)),
              velocities |-> Pack(ch[2].velocities, 1, Len(ch[2].velocities)),
              color_id |-> ch[2].color_id]
        na == IF Len(a.positions) >= MIN_LOOP_POINTS THEN <<a>> ELSE <<>>
        nb == IF Len(b.positions) >= MIN_LOOP_POINTS THEN <<b>> ELSE <<>>
    IN SplitFrom(ls, idx + 1, sc,
                 [to_remove |-> Append(acc.to_remove, idx),
                  new_loops |-> acc.new_loops \o na \o nb,
                  next_color_id |-> ids.next])

\* if self.loops.len() < MAX_LOOPS { self.check_intersections(); } on the
\* points: the scan decides as in MaybeCheck, the children are cut by
\* split_loop
PointCheck(ls, S, c, stream, next) ==
  LET chk == MaybeCheck(Sizes(ls), S, c, stream, next)
      r == SplitFrom(ls, 1, chk.scan,
                     [to_remove |-> <<>>, new_loops |-> <<>>,
                      next_color_id |-> next])
  IN [loops |-> RemoveAll(ls, r.to_remove) \o r.new_loops,
      next_color_id |-> r.next_color_id]

\* StringSimulation::new(coupling)
InitPoints ==
  /\ StringIdle /\ MatrixIdle /\ SplitIdle
  /\ pt_coupling \in Couplings
  /\ pt_loops = <<NewPointLoop(SEED_LEN_0, 0), NewPointLoop(SEED_LEN_1, 1)>>
  /\ pt_next_color_id = 2
  /\ pt_steps = 0

\* StringSimulation::step(dt)
PointStep ==
  /\ pt_steps < MaxPointSteps
  /\ \E kick \in Kicks, cross \in PointCrossProfiles, stream \in DrawStreams,
        arc \in ArcProfiles :
       \E moved \in {Pack([idx \in 1..Len(pt_loops) |->
                            Integrate(pt_loops[idx], kick)], 1, Len(pt_loops))} :
         \E chk \in {PointCheck(moved, Crossing(cross, Len(moved)),
                                pt_coupling, stream, pt_next_color_id)} :
           /\ pt_loops' = resample_point_loops(chk.loops, arc)
           /\ pt_next_color_id' = chk.next_color_id
  /\ pt_steps' = pt_steps + 1
  /\ UNCHANGED <<pt_coupling, svars, mvars, pvars>>

\* StringSimulation::set_coupling(coupling)
point_set_coupling ==
  /\ \E c \in Couplings : pt_coupling' = c
  /\ UNCHANGED <<pt_loops, pt_next_color_id, pt_steps, svars, mvars, pvars>>

NextPoints == PointStep \/ point_set_coupling

SpecPoints == InitPoints /\ [][NextPoints]_vars

(* ======================= claims: string simulation ======================= *)
ColorIds(ls) == {ls[idx].color_id : idx \in DOMAIN ls}

\* C1: in every reachable state the number of active loops is at most
\* MAX_LOOPS = 8.
C1_LoopCountAtMostMax == Len(loops) <= MAX_LOOPS

\* C2 (as stated): for every loop scanned in a step, the split candidate is
\* the first qualifying pair in scan order; exactly one draw is made for a
\* loop that has a qualifying pair and none otherwise; when that draw does
\* not fire the loop is not split, and when it fires the loop is split at
\* the first qualifying pair.
C2_OneDrawPerLoop ==
  \A idx \in DOMAIN scan :
    LET r == scan[idx]
    IN IF r.qual = <<>>
       THEN r.rolls = <<>> /\ r.split = NoPair
       ELSE /\ Len(r.rolls) = 1
            /\ (r.rolls[1] >= r.prob => r.split = NoPair)
            /\ (r.rolls[1] < r.prob => r.split = r.qual[1])

QualifyingPair(n, pr) ==
  /\ pr[1] >= 0 /\ pr[2] >= pr[1] + 4 /\ pr[2] <= n - 1
  /\ ~(pr[1] = 0 /\ pr[2] = n - 1)
  /\ pr[2] - pr[1] + 1 >= MIN_LOOP_POINTS
  /\ (n - pr[2]) + (pr[1] + 1) >= MIN_LOOP_POINTS

\* C2 (amended): for every loop scanned in a step, one draw is made at each
\* qualifying pair reached, in ascending (i, then j) scan order, until a
\* draw fires (draw < min(coupling*0.3, 0.8)); the loop is split at the
\* first qualifying pair whose own draw fires, and it is not split in that
\* step exactly when the draw fails at every one of its qualifying pairs.
C2_SplitAtFirstFiringPair ==
  \A idx \in DOMAIN scan :
    LET r == scan[idx]
        nd == Len(r.rolls)
    IN /\ \A k \in DOMAIN r.qual : QualifyingPair(r.len, r.qual[k])
       /\ \A k \in 1..(Len(r.qual) - 1) :
            PairBefore(r.qual[k], r.qual[k + 1]) /\ r.qual[k] # r.qual[k + 1]
       /\ nd <= Len(r.qual)
       /\ \A k \in 1..(nd - 1) : r.rolls[k] >= r.prob
       /\ r.split # NoPair =>
            nd >= 1 /\ r.rolls[nd] < r.prob /\ r.split = r.qual[nd]
       /\ r.split = NoPair =>
            nd = Len(r.qual) /\ \A k \in 1..nd : r.rolls[k] >= r.prob

\* a loop whose first draw failed and whose second qualifying pair fired
C2_Witness ==
  \E idx \in DOMAIN scan :
    /\ Len(scan[idx].qual) = 2 /\ Len(scan[idx].rolls) = 2
    /\ scan[idx].split = scan[idx].qual[2]

\* C3: every active loop has a point count N with 20 <= N <= 256.
C3_LoopLengthBounds ==
  \A idx \in DOMAIN loops :
    loops[idx].len >= MIN_LOOP_POINTS /\ loops[idx].len <= 256

\* after a split and a resampling: a child of the minimum size next to a
\* loop resampled to the maximum size
C3_Witness ==
  /\ steps > 0
  /\ \E a, b \in DOMAIN loops :
       /\ loops[a].len = 256
       /\ loops[b].len = MIN_LOOP_POINTS /\ loops[b].color_id >= 2
  /\ \E idx \in DOMAIN scan : scan[idx].split # NoPair

IdsDistinct ==
  \A a, b \in DOMAIN loops : a # b => loops[a].color_id # loops[b].color_id
IdsBelowCounter ==
  \A a \in DOMAIN loops : loops[a].color_id < next_color_id

\* C4: the seeds have ids 0 and 1 and the counter starts at 2; in every
\* reachable state the active color_ids are pairwise distinct and below
\* next_color_id; next_color_id never decreases, and the ids that appear in
\* a step are exactly the ids from the old counter up to the new one (two
\* per split), so no id is issued twice.
C4_FreshIncreasingIds ==
  /\ (loops[1].color_id = 0 /\ loops[2].color_id = 1 /\ next_color_id = 2)
  /\ [](IdsDistinct /\ IdsBelowCounter)
  /\ [][/\ next_color_id' >= next_color_id
        /\ (next_color_id' - next_color_id) % 2 = 0
        /\ ColorIds(loops') \ ColorIds(loops)
             = next_color_id .. (next_color_id' - 1)]_vars

\* several splits have happened, in more than one step
C4_Witness ==
  /\ next_color_id >= 8
  /\ \E a \in DOMAIN loops : loops[a].color_id = next_color_id - 1
  /\ \E a \in DOMAIN loops : loops[a].color_id < 2

\* C10: a step taken with the loop count at or above the cap runs no
\* intersection check: it makes no draw, splits and removes no loop, and
\* leaves the sequence of color_ids and next_color_id as they were.
C10_NoCheckAtCap ==
  [][(steps' = steps + 1 /\ Len(loops) >= MAX_LOOPS) =>
       /\ scan' = <<>>
       /\ Len(loops') = Len(loops)
       /\ \A idx \in DOMAIN loops : loops'[idx].color_id = loops[idx].color_id
       /\ next_color_id' = next_color_id]_vars

\* a step was taken with exactly MAX_LOOPS loops
C10_Witness == steps > 0 /\ pre_count = MAX_LOOPS /\ Len(loops) = MAX_LOOPS

\* the loops a scan split, and the color_ids of the loops it did not split,
\* in their order
SplitIdx(sc) == {idx \in DOMAIN sc : sc[idx].split # NoPair}
RECURSIVE IdsOutside(_, _, _)
IdsOutside(ls, removed, idx) ==
  IF idx > Len(ls) THEN <<>>
  ELSE (IF idx \in removed THEN <<>> ELSE <<ls[idx].color_id>>)
         \o IdsOutside(ls, removed, idx + 1)
Rank(S, idx) == Cardinality({m \in S : m <= idx})

\* C11: in a step in which k loops split, the loop count grows by exactly
\* k; the loops that did not split come first, with their color_ids and in
\* their old relative order; no split parent remains; the 2k children
\* follow, two per split in the order of the splits, with the two ids
\* issued for that split; and both children of every split have at least
\* MIN_LOOP_POINTS points, so none is dropped.
C11_SplitsReplaceParents ==
  [][steps' = steps + 1 =>
       LET sp == SplitIdx(scan')
           k == Cardinality(sp)
           kept == Len(loops) - k
           ids == IdsOutside(loops, sp, 1)
       IN /\ Len(loops') = Len(loops) + k
          /\ Len(ids) = kept
          /\ \A m \in 1..kept : loops'[m].color_id = ids[m]
          /\ \A idx \in sp : loops[idx].color_id \notin ColorIds(loops')
          /\ \A idx \in sp :
               LET r == Rank(sp, idx)
                   rec == scan'[idx]
                   a == loops'[kept + 2 * r - 1]
                   b == loops'[kept + 2 * r]
               IN /\ a.color_id = next_color_id + 2 * (r - 1)
                  /\ b.color_id = next_color_id + 2 * (r - 1) + 1
                  /\ a.len >= MIN_LOOP_POINTS /\ b.len >= MIN_LOOP_POINTS
                  /\ rec.split[2] - rec.split[1] + 1 >= MIN_LOOP_POINTS
                  /\ (rec.len - rec.split[2]) + (rec.split[1] + 1)
                       >= MIN_LOOP_POINTS]_vars

\* a step of at least three loops in which two loops split and a loop
\* between them did not
C11_Witness ==
  /\ steps > 0
  /\ Len(loops) = pre_count + Cardinality(SplitIdx(scan))
  /\ \E a, b, c \in DOMAIN scan :
       /\ a < b /\ b < c
       /\ scan[a].split # NoPair /\ scan[b].split = NoPair
       /\ scan[c].split # NoPair

(* ======================= claims: matrix model ======================= *)
Entry(mx, n, a, b) == mx[a * n + b + 1]

\* C5: MatrixSimulation::new(0, coupling, mass) is rejected: it does not
\* return a constructed simulation.
C5_ZeroSizeRejected == mat_n = 0 => mat_status # "constructed"

\* C6: for n >= 1, at construction and after every step (with any pokes,
\* set_coupling and set_mass calls between), X_i[a][b] = X_i[b][a] for every
\* i and all a, b.
C6_PositionsSymmetric ==
  mat_n >= 1 =>
    \A i \in 1..3 : \A a, b \in 0..(mat_n - 1) :
      Entry(mat_x[i], mat_n, a, b) = Entry(mat_x[i], mat_n, b, a)

\* after a step that moved an off-diagonal entry
C6_Witness ==
  /\ mat_n >= 2 /\ mat_last # <<>>
  /\ \E i \in 1..3 : \E a, b \in 0..(mat_n - 1) :
       /\ a # b
       /\ Entry(mat_x[i], mat_n, a, b) # 0
       /\ Entry(mat_x[i], mat_n, a, b) # Entry(mat_last[3][i], mat_n, a, b)

InRange(v, bound) == v >= 0 - bound /\ v <= bound

\* C7: every entry of the forces compute_forces returns is within
\* [-2, 2]; every momentum entry is within [-3, 3] after construction,
\* after each step and after each poke; the net change of every X_i entry
\* over one step is within [-0.15, 0.15].
C7_Bounded ==
  /\ \A i \in DOMAIN mat_p : \A idx \in DOMAIN mat_p[i] : InRange(mat_p[i][idx], 60)
  /\ mat_last # <<>> =>
       \A i \in 1..3 : \A idx \in 1..(mat_n * mat_n) :
         /\ InRange(mat_last[1][i][idx], 40)
         /\ InRange(mat_last[2][i][idx], 40)
         /\ InRange(mat_x[i][idx] - mat_last[3][i][idx], 3)

\* after a step in which a force, a momentum and a displacement sit on
\* their bounds
C7_Witness ==
  /\ mat_n >= 1 /\ mat_last # <<>>
  /\ \E i \in 1..3 : \E idx \in 1..(mat_n * mat_n) :
       mat_last[2][i][idx] = 40 \/ mat_last[2][i][idx] = -40
  /\ \E i \in 1..3 : \E idx \in 1..(mat_n * mat_n) :
       mat_p[i][idx] = 60 \/ mat_p[i][idx] = -60
  /\ \E i \in 1..3 : \E idx \in 1..(mat_n * mat_n) :
       mat_x[i][idx] - mat_last[3][i][idx] = 3
       \/ mat_x[i][idx] - mat_last[3][i][idx] = -3

\* the matrix product A * B and the trace, flat row-major
MatMul(a, b, n) ==
  Vec([idx \in 1..(n * n) |->
     Sum([k \in 1..n |-> a[((idx - 1) \div n) * n + k] * b[(k - 1) * n + ((idx - 1) % n) + 1]])],
      n * n)
Trace(a, n) == Sum([k \in 1..n |-> a[(k - 1) * n + k]])
TrSq(a, n) == Trace(MatMul(a, a, n), n)

\* H = 1/2 Tr(P^2) - 1/4 coupling^2 * sum over ordered pairs i # j of
\* Tr([X_i, X_j]^2) + 1/2 mass^2 * sum over i of Tr(X_i^2), times 640000
Hamiltonian(x, pm, n, c, m) ==
  800 * Sum([i \in 1..3 |-> TrSq(pm[i], n)])
  - c * c * Sum([k \in 1..9 |->
        LET i == ((k - 1) \div 3) + 1
            j == ((k - 1) % 3) + 1
        IN IF i = j THEN 0 ELSE TrSq(commutator(x[i], x[j], n), n)])
  + 800 * m * m * Sum([i \in 1..3 |-> TrSq(x[i], n)])

\* C9: for symmetric X_i and P_i, get_energy returns the value of the
\* stated Hamiltonian.
C9_EnergyIsHamiltonian ==
  mat_n >= 1 =>
    get_energy(mat_x, mat_p, mat_n, mat_coupling, mat_mass)
      = Hamiltonian(mat_x, mat_p, mat_n, mat_coupling, mat_mass)

(* ======================= claims: velocities ======================= *)
\* C12: in every state reachable by step and set_coupling, every loop has
\* as many velocities as positions and every component of every velocity
\* lies in [-5, 5]; this includes the children of a split and the loops
\* replaced by resampling.
C12_VelocitiesBounded ==
  \A idx \in DOMAIN pt_loops :
    /\ Len(pt_loops[idx].positions) = Len(pt_loops[idx].velocities)
    /\ \A k \in DOMAIN pt_loops[idx].velocities :
         /\ Len(pt_loops[idx].velocities[k]) = 3
         /\ \A d \in 1..3 :
              /\ pt_loops[idx].velocities[k][d] >= 0 - VEL_CLAMP
              /\ pt_loops[idx].velocities[k][d] <= VEL_CLAMP

\* after two steps: a child of a split that was resampled to 256 points
\* holds a component at the upper bound and one at the lower bound
C12_Witness ==
  /\ pt_steps = 2
  /\ \E idx \in DOMAIN pt_loops :
       /\ pt_loops[idx].color_id >= 2
       /\ Len(pt_loops[idx].positions) = MAX_POINTS
       /\ \E k \in DOMAIN pt_loops[idx].velocities :
            \E d \in 1..3 : pt_loops[idx].velocities[k][d] = VEL_CLAMP
       /\ \E k \in DOMAIN pt_loops[idx].velocities :
            \E d \in 1..3 : pt_loops[idx].velocities[k][d] = 0 - VEL_CLAMP

(* ======================= claims: split_loop ======================= *)
Occurrences(seq, v) == Cardinality({k \in DOMAIN seq : seq[k] = v})

\* C8: for a loop of N points and i < j with both child sizes >= 20,
\* split_loop returns child A = points i..j and child B = points j..N-1
\* followed by 0..i, each with the velocities of the same points and with
\* the ids c1 and c2; A then B holds every point of the loop once, except
\* points i and j, which it holds twice; the sizes are j-i+1 and
\* (N-j)+(i+1) and add up to N+2.
C8_SplitPartitions ==
  sp_out # <<>> =>
    LET lp == TaggedLoop(sp_in.n)
        a == sp_out[1]
        b == sp_out[2]
        all == a.positions \o b.positions
        allv == a.velocities \o b.velocities
    IN /\ a.positions = SubSeq(lp.positions, sp_in.i + 1, sp_in.j + 1)
       /\ b.positions = SubSeq(lp.positions, sp_in.j + 1, sp_in.n)
                          \o SubSeq(lp.positions, 1, sp_in.i + 1)
       /\ \A k \in DOMAIN all : allv[k] = lp.velocities[all[k] + 1]
       /\ Len(allv) = Len(all)
       /\ \A k \in 0..(sp_in.n - 1) :
            Occurrences(all, lp.positions[k + 1])
              = IF k = sp_in.i \/ k = sp_in.j THEN 2 ELSE 1
       /\ Len(a.positions) = sp_in.j - sp_in.i + 1
       /\ Len(b.positions) = (sp_in.n - sp_in.j) + (sp_in.i + 1)
       /\ Len(a.positions) + Len(b.positions) = sp_in.n + 2
       /\ Len(a.positions) = SplitChildren(sp_in.n, sp_in.i, sp_in.j, 2, 3)[1].len
       /\ Len(b.positions) = SplitChildren(sp_in.n, sp_in.i, sp_in.j, 2, 3)[2].len
       /\ a.color_id = sp_in.c1 /\ b.color_id = sp_in.c2

\* a split whose child B wraps around the end of the loop and whose
\* children differ in size
C8_Witness ==
  /\ sp_out # <<>> /\ sp_in.i > 0 /\ sp_in.j < sp_in.n - 1
  /\ Len(sp_out[1].positions) # Len(sp_out[2].positions)

====
